---- MODULE Spec2Model ----
(***************************************************************************)
(* Model of telestai-groomer.py: the pre-flight checks and the wallet      *)
(* consolidation loop, as a state machine whose steps are the RPC calls    *)
(* and the interactive prompts of the script.                              *)
(*                                                                         *)
(* Amounts are Decimal values in the script; Decimal addition, subtraction *)
(* and comparison are exact, so amounts are modelled as integers counted   *)
(* in units of 0.00001 TLS (1 TLS = 100000 units).                         *)
(***************************************************************************)
EXTENDS Integers, Sequences, FiniteSets, TLC

VARIABLES
  args,            \* parsed command line (line 30)
  pc,              \* position of the script
  rpclog,          \* history: RPC calls issued so far, with their outcome
  address,         \* line 56: the result of validateaddress
  walletEncrypted, \* line 66
  coins,           \* line 81
  scripts,         \* line 86
  most_overused,   \* line 105
  txouts,          \* line 124
  amt,             \* line 123
  out,             \* line 138
  na,              \* line 139
  addr,            \* lines 148, 150
  txn,             \* line 161
  signed_txn,      \* line 167
  a,               \* lines 163, 171
  transactions,    \* line 31
  summary,         \* what the stop paths print (lines 96-114)
  exc,             \* uncaught exception that ended the script, if any
  chunks,          \* history: the amounts taken by the split loop this iteration
  newaddrs,        \* history: getnewaddress calls issued this iteration
  iter,            \* history: number of listunspent calls issued
  broadcasts,      \* history: what each sendrawtransaction call sent and got
  wallet           \* the unspent outputs of the wallet behind the RPC server

vars == <<args, pc, rpclog, address, walletEncrypted, coins, scripts,
          most_overused, txouts, amt, out, na, addr, txn, signed_txn, a,
          transactions, summary, exc, chunks, newaddrs, iter, broadcasts,
          wallet>>

----------------------------------------------------------------------------
(* Bounds of the model *)

MaxCoins == 3
MaxIter == 2
MaxSnap == 4
MaxSplitSteps == 70
MaxWallet == 4

----------------------------------------------------------------------------
(* Values *)

TLS == 100000

NoneVal == -1
Unbound == -2
ExplicitAddress == 0

MinAmt == 1000
DustLimit == 10
AbsorbLimit == 1000000
MinConfirmations == 100
MinOutputs == 3

Scripts == {"S1", "S2"}

\* <<amount, confirmations>> of the unspent outputs a snapshot may hold:
\* dust, a small well confirmed payment, a payment of 12 TLS with and
\* without enough confirmations, and a payment above the default
\* max_amt_input.
CoinKinds == {<<5, 101>>, <<2000, 101>>, <<12 * TLS, 101>>, <<12 * TLS, 100>>,
              <<30 * TLS, 101>>}

Coin(i, s, k) ==
  [txid |-> i, vout |-> 0, scriptPubKey |-> s, amount |-> k[1],
   confirmations |-> k[2]]

SnapshotsUpTo(m) ==
  UNION {{[i \in 1..n |-> Coin(i, f[i][1], f[i][2])] :
             f \in [1..n -> Scripts \X CoinKinds]} : n \in 0..m}

Snapshots == SnapshotsUpTo(MaxCoins)

\* The command lines the model runs.  --reuse is only read when no
\* --address is given (line 146), so it is left off with an address.
ArgChoices ==
  {r \in [max_amt_input : {25 * TLS},
          max_num_tx : {2, 500},
          max_amt_per_output : {10 * TLS},
          fee : {0, TLS},
          reuse : BOOLEAN,
          address : {NoneVal, ExplicitAddress},
          auto : BOOLEAN] :
     r.address = NoneVal \/ ~r.reuse}

Answers == {"y", "n", "N"}

----------------------------------------------------------------------------
(* Pure helpers *)

RECURSIVE SumSeq(_)
SumSeq(s) == IF s = <<>> THEN 0 ELSE s[1] + SumSeq(Tail(s))

RECURSIVE SumFun(_)
SumFun(f) ==
  IF DOMAIN f = {} THEN 0
  ELSE LET k == CHOOSE x \in DOMAIN f : TRUE
       IN f[k] + SumFun([x \in DOMAIN f \ {k} |-> f[x]])

Min(x, y) == IF x <= y THEN x ELSE y

Log(op, ok) == Append(rpclog, [op |-> op, ok |-> ok])

----------------------------------------------------------------------------
(* Grouping of a snapshot by script (lines 86-94).  A group is the tuple   *)
(* <<qualifying count, total amount, output-count field>>.                 *)

Qualifies(coin) ==
  /\ coin.amount < args.max_amt_input
  /\ coin.amount >= MinAmt
  /\ coin.confirmations > MinConfirmations

GroupStep(sc, coin) ==
  LET s == coin.scriptPubKey
      sc0 == IF s \in DOMAIN sc THEN sc ELSE sc @@ (s :> <<0, 0, 0>>)
      old == sc0[s]
  IN IF Qualifies(coin)
       THEN [sc0 EXCEPT ![s] = <<old[1] + 1, old[2] + coin.amount, old[1] + 1>>]
       ELSE [sc0 EXCEPT ![s] = <<old[1], old[2] + coin.amount, old[1] + 1>>]

RECURSIVE GroupFrom(_, _, _)
GroupFrom(cs, i, sc) ==
  IF i > Len(cs) THEN sc ELSE GroupFrom(cs, i + 1, GroupStep(sc, cs[i]))

Group(cs) == GroupFrom(cs, 1, <<>>)

\* Position of a script in the dict's insertion order: the index of the
\* first output of the snapshot that pays to it.
FirstSeen(cs, s) ==
  CHOOSE i \in 1..Len(cs) :
    /\ cs[i].scriptPubKey = s
    /\ \A j \in 1..(i - 1) : cs[j].scriptPubKey # s

\* Python's tuple comparison: lexicographic.
TupleLess(x, y) ==
  \/ x[1] < y[1]
  \/ x[1] = y[1] /\ x[2] < y[2]
  \/ x[1] = y[1] /\ x[2] = y[2] /\ x[3] < y[3]

\* The script with the greatest qualifying count, the first seen on a tie.
MostOverusedByCount(cs, sc) ==
  CHOOSE s \in DOMAIN sc :
    /\ \A t \in DOMAIN sc : sc[t][1] <= sc[s][1]
    /\ \A t \in DOMAIN sc :
         sc[t][1] = sc[s][1] => FirstSeen(cs, s) <= FirstSeen(cs, t)

\* max(scripts.items(), key=operator.itemgetter(1))[0]  (line 105): the
\* first item, in insertion order, whose tuple no other item exceeds.
MostOverused(cs, sc) ==
  CHOOSE s \in DOMAIN sc :
    /\ \A t \in DOMAIN sc : ~TupleLess(sc[s], sc[t])
    /\ \A t \in DOMAIN sc : sc[t] = sc[s] => FirstSeen(cs, s) <= FirstSeen(cs, t)

\* The give-up check with the output-count threshold lowered by one.
GiveUpAtTwo(sc, mo) == sc[mo][3] < MinOutputs - 1 \/ sc[mo][2] < MinAmt

\* The give-up check of line 108.
GiveUp(sc, mo) == sc[mo][3] < MinOutputs \/ sc[mo][2] < MinAmt

\* usescripts (lines 116-121).
UseScripts(sc, mo) == {mo} \cup {s \in DOMAIN sc : sc[s][2] < DustLimit}

\* Input selection (lines 123-133): the indexes, in snapshot order, of the
\* outputs taken as inputs.
RECURSIVE SelectFromOffByOne(_, _, _, _)
SelectFromOffByOne(cs, use, i, sel) ==
  IF i > Len(cs) \/ Len(sel) > args.max_num_tx THEN sel
  ELSE IF cs[i].scriptPubKey \in use
         THEN SelectFromOffByOne(cs, use, i + 1, Append(sel, i))
         ELSE SelectFromOffByOne(cs, use, i + 1, sel)

RECURSIVE SelectFrom(_, _, _, _)
SelectFrom(cs, use, i, sel) ==
  IF i > Len(cs) \/ Len(sel) >= args.max_num_tx THEN sel
  ELSE IF cs[i].scriptPubKey \in use
         THEN SelectFrom(cs, use, i + 1, Append(sel, i))
         ELSE SelectFrom(cs, use, i + 1, sel)

SelectInputs(cs, use) == SelectFrom(cs, use, 1, <<>>)

TxOutsOf(cs, sel) ==
  [k \in 1..Len(sel) |-> [txid |-> cs[sel[k]].txid, vout |-> cs[sel[k]].vout]]

AmtOf(cs, sel) == SumSeq([k \in 1..Len(sel) |-> cs[sel[k]].amount])

\* A chunk that is always the cap: no min, no remainder rule.
ChunkOfFixed(n) == args.max_amt_per_output

\* A chunk capped by max_amt_input instead of max_amt_per_output.
ChunkOfInputCap(n) ==
  LET amount == Min(args.max_amt_input, n)
  IN IF n - amount < AbsorbLimit THEN n ELSE amount

\* A chunk capped by the remainder threshold instead of max_amt_per_output.
ChunkOfCapAtLimit(n) ==
  LET amount == Min(AbsorbLimit, n)
  IN IF n - amount < AbsorbLimit THEN n ELSE amount

\* A chunk without the remainder rule of lines 144-145.
ChunkOfNoAbsorb(n) == Min(args.max_amt_per_output, n)

\* The split loop's chunk (lines 143-145).
ChunkOf(n) ==
  LET amount == Min(args.max_amt_per_output, n)
  IN IF n - amount < AbsorbLimit THEN n ELSE amount

\* Payout accumulation that overwrites the address's entry.
AddPayoutOverwrite(o, ad, amount) ==
  IF amount > 0
    THEN [x \in DOMAIN o \cup {ad} |-> IF x = ad THEN amount ELSE o[x]]
    ELSE o

\* Payout accumulation (lines 151-154).
AddPayout(o, ad, amount) ==
  IF amount > 0
    THEN LET o0 == IF ad \in DOMAIN o THEN o ELSE o @@ (ad :> 0)
         IN [o0 EXCEPT ![ad] = o0[ad] + amount]
    ELSE o

\* A prompt answer that declines only on the lower-case letter.
DeclinedLowerOnly(ans) == ans = "n"

\* a == 'n' or a == 'N'  (lines 164, 172).
Declined(ans) == ans = "n" \/ ans = "N"

\* The address check without the ownership test.
AddressAcceptedValidOnly(res) == res.isvalid

\* The pre-flight address check (lines 57-62).
AddressAccepted(res) == res.isvalid /\ res.ismine

\* Where an RPC error leaves the script, with listunspent retried.
AfterErrorRetryList(op) ==
  IF op = "listunspent" THEN "loop"
  ELSE IF op \in {"validateaddress", "getwalletinfo", "getnewaddress"}
         THEN "crashed" ELSE "done"

\* Where an RPC error leaves the script: sys.exit() in the handlers of
\* lines 51-53, 82-84 and 178-180, an uncaught exception for the calls made
\* outside a try block (lines 56, 64, 148).
AfterError(op) ==
  IF op \in {"validateaddress", "getwalletinfo", "getnewaddress"}
    THEN "crashed" ELSE "done"

\* What signrawtransaction returns as 'hex' for the raw transaction t.
SignedBy(t) == [tx |-> t, signed |-> TRUE]

\* A broadcast of the raw transaction instead of the signed one.
SendPayloadUnsigned(t, s) == [tx |-> t, signed |-> FALSE]

\* The argument of sendrawtransaction (line 175): signed_txn['hex'].
SendPayload(t, s) == s.hex

\* A transactions list that keeps only the latest identifier.
RunLogReplace(ts, txid) == <<txid>>

\* transactions.append(txid)  (line 176).
RunLogAppend(ts, txid) == Append(ts, txid)

----------------------------------------------------------------------------
(* The script *)

NoTxn == [vin |-> <<>>, vout |-> <<>>]

ValidateResults ==
  {[isvalid |-> FALSE, ismine |-> FALSE],
   [isvalid |-> TRUE, ismine |-> FALSE],
   [isvalid |-> TRUE, ismine |-> TRUE]}

\* unlocked_until as reported by getwalletinfo: 0 when locked, absent when
\* the wallet is not encrypted, the unlock deadline otherwise.
UnlockedUntil == {0, NoneVal, 600}

Init ==
  /\ args \in ArgChoices
  /\ pc = "connect"
  /\ rpclog = <<>>
  /\ address = [isvalid |-> FALSE, ismine |-> FALSE]
  /\ walletEncrypted = NoneVal
  /\ coins = <<>>
  /\ scripts = <<>>
  /\ most_overused = ""
  /\ txouts = <<>>
  /\ amt = 0
  /\ out = <<>>
  /\ na = 0
  /\ addr = Unbound
  /\ txn = NoTxn
  /\ signed_txn = [hex |-> [tx |-> NoTxn, signed |-> FALSE]]
  /\ a = ""
  /\ transactions = <<>>
  /\ summary = <<>>
  /\ exc = ""
  /\ chunks = <<>>
  /\ newaddrs = 0
  /\ iter = 0
  /\ broadcasts = <<>>
  /\ wallet = <<>>

\* Lines 48-53.
GetBlockchainInfo ==
  /\ pc = "connect"
  /\ \E ok \in BOOLEAN :
       /\ rpclog' = Log("getblockchaininfo", ok)
       /\ pc' = IF ok
                  THEN (IF args.address # NoneVal THEN "validate" ELSE "walletinfo")
                  ELSE AfterError("getblockchaininfo")
  /\ UNCHANGED <<most_overused, broadcasts, wallet,
                 args, address, walletEncrypted, coins, scripts, txouts, amt,
                 out, na, addr, txn, signed_txn, a, transactions, summary,
                 exc, chunks, newaddrs, iter>>

\* Lines 55-62.
ValidateAddress ==
  /\ pc = "validate"
  /\ \/ /\ rpclog' = Log("validateaddress", FALSE)
        /\ pc' = AfterError("validateaddress")
        /\ exc' = "JSONRPCException"
        /\ UNCHANGED address
     \/ \E res \in ValidateResults :
          /\ rpclog' = Log("validateaddress", TRUE)
          /\ address' = res
          /\ pc' = IF AddressAccepted(res) THEN "walletinfo" ELSE "done"
          /\ UNCHANGED exc
  /\ UNCHANGED <<most_overused, broadcasts, wallet,
                 args, walletEncrypted, coins, scripts, txouts, amt, out, na,
                 addr, txn, signed_txn, a, transactions, summary, chunks,
                 newaddrs, iter>>

\* Lines 64-76.
GetWalletInfo ==
  /\ pc = "walletinfo"
  /\ \/ /\ rpclog' = Log("getwalletinfo", FALSE)
        /\ pc' = AfterError("getwalletinfo")
        /\ exc' = "JSONRPCException"
        /\ UNCHANGED walletEncrypted
     \/ \E u \in UnlockedUntil :
          /\ rpclog' = Log("getwalletinfo", TRUE)
          /\ walletEncrypted' = u
          /\ pc' = IF u = 0 THEN "done" ELSE "loop"
          /\ UNCHANGED exc
  /\ UNCHANGED <<most_overused, broadcasts, wallet,
                 args, address, coins, scripts, txouts, amt, out, na, addr,
                 txn, signed_txn, a, transactions, summary, chunks, newaddrs,
                 iter>>

\* What the two stop paths print (lines 97-101 and 109-113).
StopSummary ==
  IF Len(transactions) = 0
    THEN <<"Wallet already clean.">>
    ELSE <<"Transactions sent:", transactions, "Wallet has been cleaned">>

\* Lines 79-139: one pass from listunspent to the start of the split loop,
\* listunspent answering with an error or with one of the snapshots snaps.
ListUnspentFrom(snaps) ==
  /\ pc = "loop"
  /\ iter' = iter + 1
  /\ \/ /\ rpclog' = Log("listunspent", FALSE)
        /\ pc' = AfterError("listunspent")
        /\ UNCHANGED <<coins, scripts, most_overused, txouts, amt, out, na,
                       summary, chunks, newaddrs>>
     \/ \E cs \in snaps :
          LET sc == Group(cs)
              mo == MostOverused(cs, sc)
              sel == SelectInputs(cs, UseScripts(sc, mo))
          IN /\ rpclog' = Log("listunspent", TRUE)
             /\ coins' = cs
             /\ scripts' = sc
             /\ most_overused' = IF DOMAIN sc = {} THEN most_overused ELSE mo
             /\ IF DOMAIN sc = {} \/ GiveUp(sc, mo)
                  THEN /\ summary' = StopSummary
                       /\ pc' = "done"
                       /\ UNCHANGED <<txouts, amt, out, na, chunks, newaddrs>>
                  ELSE /\ txouts' = TxOutsOf(cs, sel)
                       /\ amt' = AmtOf(cs, sel)
                       /\ out' = <<>>
                       /\ na' = AmtOf(cs, sel) - args.fee
                       /\ chunks' = <<>>
                       /\ newaddrs' = 0
                       /\ pc' = IF AmtOf(cs, sel) - args.fee > 0
                                  THEN "split" ELSE "create"
                       /\ UNCHANGED summary
  /\ UNCHANGED <<broadcasts, wallet, args, address, walletEncrypted, addr,
                 txn, signed_txn, a, transactions, exc>>

\* The loop's listunspent against a wallet that may hold any snapshot.
ListUnspent ==
  /\ iter < MaxIter
  /\ ListUnspentFrom(Snapshots)

\* The address getnewaddress hands out: one the wallet has not given before.
FreshAddress ==
  1 + Cardinality({i \in DOMAIN rpclog :
                     rpclog[i].op = "getnewaddress" /\ rpclog[i].ok})

\* Lines 142-155: one pass of the split loop.
SplitStep ==
  /\ pc = "split"
  /\ LET amount == ChunkOf(na)
         Pay(ad) ==
           /\ addr' = ad
           /\ out' = AddPayout(out, ad, amount)
           /\ na' = na - amount
           /\ chunks' = Append(chunks, amount)
           /\ pc' = IF na - amount > 0 THEN "split" ELSE "create"
           /\ UNCHANGED exc
     IN IF args.address # NoneVal
          THEN Pay(args.address) /\ UNCHANGED <<rpclog, newaddrs>>
          ELSE IF args.reuse /\ addr = Unbound
            THEN \* line 147 reads addr before any assignment to it
                 /\ pc' = "crashed"
                 /\ exc' = "NameError"
                 /\ UNCHANGED <<rpclog, newaddrs, addr, out, na, chunks>>
            ELSE IF ~args.reuse \/ addr = NoneVal
              THEN \/ /\ rpclog' = Log("getnewaddress", TRUE)
                      /\ newaddrs' = newaddrs + 1
                      /\ Pay(FreshAddress)
                   \/ /\ rpclog' = Log("getnewaddress", FALSE)
                      /\ newaddrs' = newaddrs + 1
                      /\ pc' = AfterError("getnewaddress")
                      /\ exc' = "JSONRPCException"
                      /\ UNCHANGED <<addr, out, na, chunks>>
              ELSE Pay(addr) /\ UNCHANGED <<rpclog, newaddrs>>
  /\ UNCHANGED <<most_overused, broadcasts, wallet,
                 args, address, walletEncrypted, coins, scripts, txouts, amt,
                 txn, signed_txn, a, transactions, summary, iter>>

\* Line 161 and the except clause of lines 178-180.
CreateRawTransaction ==
  /\ pc = "create"
  /\ \/ /\ rpclog' = Log("createrawtransaction", TRUE)
        /\ txn' = [vin |-> txouts, vout |-> out]
        /\ pc' = IF args.auto THEN "sign" ELSE "signprompt"
     \/ /\ rpclog' = Log("createrawtransaction", FALSE)
        /\ pc' = AfterError("createrawtransaction")
        /\ UNCHANGED txn
  /\ UNCHANGED <<most_overused, broadcasts, wallet,
                 args, address, walletEncrypted, coins, scripts, txouts, amt,
                 out, na, addr, signed_txn, a, transactions, summary, exc,
                 chunks, newaddrs, iter>>

\* Lines 162-165.
SignPrompt ==
  /\ pc = "signprompt"
  /\ \E ans \in Answers :
       /\ a' = ans
       /\ pc' = IF Declined(ans) THEN "done" ELSE "sign"
  /\ UNCHANGED <<most_overused, broadcasts, wallet,
                 args, rpclog, address, walletEncrypted, coins, scripts,
                 txouts, amt, out, na, addr, txn, signed_txn, transactions,
                 summary, exc, chunks, newaddrs, iter>>

\* Lines 167-168.
SignRawTransaction ==
  /\ pc = "sign"
  /\ \/ /\ rpclog' = Log("signrawtransaction", TRUE)
        /\ signed_txn' = [hex |-> SignedBy(txn)]
        /\ pc' = IF args.auto THEN "send" ELSE "sendprompt"
     \/ /\ rpclog' = Log("signrawtransaction", FALSE)
        /\ pc' = AfterError("signrawtransaction")
        /\ UNCHANGED signed_txn
  /\ UNCHANGED <<most_overused, broadcasts, wallet,
                 args, address, walletEncrypted, coins, scripts, txouts, amt,
                 out, na, addr, txn, a, transactions, summary, exc, chunks,
                 newaddrs, iter>>

\* Lines 170-173.
SendPrompt ==
  /\ pc = "sendprompt"
  /\ \E ans \in Answers :
       /\ a' = ans
       /\ pc' = IF Declined(ans) THEN "done" ELSE "send"
  /\ UNCHANGED <<most_overused, broadcasts, wallet,
                 args, rpclog, address, walletEncrypted, coins, scripts,
                 txouts, amt, out, na, addr, txn, signed_txn, transactions,
                 summary, exc, chunks, newaddrs, iter>>

\* Lines 175-177, but for the wallet behind the server: txid is what a
\* successful call returns.
SendFrom(txid) ==
  /\ pc = "send"
  /\ \/ /\ rpclog' = Log("sendrawtransaction", TRUE)
        /\ broadcasts' = Append(broadcasts,
                                [hex |-> SendPayload(txn, signed_txn),
                                 ok |-> TRUE, txid |-> txid])
        /\ transactions' = RunLogAppend(transactions, txid)
        /\ pc' = "loop"
     \/ /\ rpclog' = Log("sendrawtransaction", FALSE)
        /\ broadcasts' = Append(broadcasts,
                                [hex |-> SendPayload(txn, signed_txn),
                                 ok |-> FALSE, txid |-> NoneVal])
        /\ pc' = AfterError("sendrawtransaction")
        /\ UNCHANGED transactions
  /\ UNCHANGED <<most_overused, args, address, walletEncrypted, coins,
                 scripts, txouts, amt, out, na, addr, txn, signed_txn, a,
                 summary, exc, chunks, newaddrs, iter>>

\* The identifier of the next transaction the network accepts.
NextTxId == 1 + Cardinality({i \in DOMAIN broadcasts : broadcasts[i].ok})

SendRawTransaction ==
  /\ SendFrom(NextTxId)
  /\ UNCHANGED wallet

Next ==
  \/ GetBlockchainInfo
  \/ ValidateAddress
  \/ GetWalletInfo
  \/ ListUnspent
  \/ SplitStep
  \/ CreateRawTransaction
  \/ SignPrompt
  \/ SignRawTransaction
  \/ SendPrompt
  \/ SendRawTransaction

Spec == Init /\ [][Next]_vars

----------------------------------------------------------------------------
(* Grouping, candidate selection and input selection on their own: the     *)
(* first pass of the loop, after a pre-flight that passed, over every      *)
(* snapshot of up to MaxSnap outputs.                                      *)

PassedPreflight ==
  <<[op |-> "getblockchaininfo", ok |-> TRUE],
    [op |-> "getwalletinfo", ok |-> TRUE]>>

InitSelect ==
  /\ args \in {r \in ArgChoices : r.auto /\ ~r.reuse /\ r.address = NoneVal}
  /\ pc = "loop"
  /\ rpclog = PassedPreflight
  /\ address = [isvalid |-> FALSE, ismine |-> FALSE]
  /\ walletEncrypted = NoneVal
  /\ coins = <<>>
  /\ scripts = <<>>
  /\ most_overused = ""
  /\ txouts = <<>>
  /\ amt = 0
  /\ out = <<>>
  /\ na = 0
  /\ addr = Unbound
  /\ txn = NoTxn
  /\ signed_txn = [hex |-> [tx |-> NoTxn, signed |-> FALSE]]
  /\ a = ""
  /\ transactions = <<>>
  /\ summary = <<>>
  /\ exc = ""
  /\ chunks = <<>>
  /\ newaddrs = 0
  /\ iter = 0
  /\ broadcasts = <<>>
  /\ wallet = <<>>

GroupAndSelect == ListUnspentFrom(SnapshotsUpTo(MaxSnap))

NextSelect == GroupAndSelect

SpecSelect == InitSelect /\ [][NextSelect]_vars

----------------------------------------------------------------------------
(* The split loop on its own: the script at line 142 with a payable amount *)
(* drawn from NChoices and a cap drawn from OutChoices.  The snapshot is   *)
(* two small payments and a third output that makes up the amount, all to  *)
(* one script, so that the state is the one ListUnspentFrom leaves.        *)

OutChoices == {TLS \div 2, 3 * TLS, 10 * TLS, 10000 * TLS}

\* Payable amounts: every half TLS up to MaxSplitSteps halves, and one unit
\* to either side of each.
NChoices ==
  {n \in {k * (TLS \div 2) + d : k \in 0..MaxSplitSteps, d \in {-1, 0, 1}} :
     n > 0}

SplitArgs ==
  [max_amt_input : {25 * TLS},
   max_num_tx : {500},
   max_amt_per_output : OutChoices,
   fee : {TLS},
   reuse : {FALSE},
   address : {ExplicitAddress},
   auto : {TRUE}]

SplitSnapshot(n) ==
  <<Coin(1, "S1", <<2000, 101>>), Coin(2, "S1", <<2000, 101>>),
    Coin(3, "S1", <<n + TLS - 4000, 101>>)>>

InitSplit ==
  /\ args \in SplitArgs
  /\ \E n \in NChoices :
       /\ coins = SplitSnapshot(n)
       /\ amt = n + TLS
       /\ na = n
  /\ pc = "split"
  /\ rpclog = <<[op |-> "getblockchaininfo", ok |-> TRUE],
                [op |-> "validateaddress", ok |-> TRUE],
                [op |-> "getwalletinfo", ok |-> TRUE],
                [op |-> "listunspent", ok |-> TRUE]>>
  /\ address = [isvalid |-> TRUE, ismine |-> TRUE]
  /\ walletEncrypted = NoneVal
  /\ scripts = Group(coins)
  /\ most_overused = "S1"
  /\ txouts = TxOutsOf(coins, <<1, 2, 3>>)
  /\ out = <<>>
  /\ addr = Unbound
  /\ txn = NoTxn
  /\ signed_txn = [hex |-> [tx |-> NoTxn, signed |-> FALSE]]
  /\ a = ""
  /\ transactions = <<>>
  /\ summary = <<>>
  /\ exc = ""
  /\ chunks = <<>>
  /\ newaddrs = 0
  /\ iter = 1
  /\ broadcasts = <<>>
  /\ wallet = <<>>

NextSplit == SplitStep

SpecSplit == InitSplit /\ [][NextSplit]_vars

\* The script runs on: a pass of the split loop that can be taken is taken.
SpecSplitFair == SpecSplit /\ WF_vars(SplitStep)

----------------------------------------------------------------------------
(* The script in unattended mode against a wallet that only the script     *)
(* changes: no RPC call fails, the pre-flight passes, listunspent lists    *)
(* the wallet, and a broadcast removes the inputs of the transaction from  *)
(* the wallet and adds its payouts.                                        *)

WalletKinds == {<<5, 101>>, <<2000, 101>>, <<12 * TLS, 101>>}

\* Outputs the wallet holds at the start; their txids are negative so that
\* they differ from the txids of the transactions of this run.
Wallets ==
  UNION {{[i \in 1..n |-> Coin(0 - i, f[i][1], f[i][2])] :
             f \in [1..n -> Scripts \X WalletKinds]} : n \in 0..MaxWallet}

WalletArgs ==
  {r \in ArgChoices : r.auto /\ r.fee > 0}

\* Confirmations a payout of this run has when it is next listed.
NewConfs == {1, 101}

\* The script an address pays to.  The configured address is one the
\* wallet already received payments on; a fresh address is new.
ScriptOf(ad) == IF ad = ExplicitAddress THEN "S1" ELSE ToString(ad)

\* listunspent(1, 99999999)  (line 81).
Listing(w) ==
  SelectSeq(w, LAMBDA c : c.confirmations >= 1 /\ c.confirmations <= 99999999)

RECURSIVE SortedSeq(_)
SortedSeq(S) ==
  IF S = {} THEN <<>>
  ELSE LET m == CHOOSE x \in S : \A y \in S : x <= y
       IN <<m>> \o SortedSeq(S \ {m})

\* The wallet after the network accepted transaction tx as txid.
Broadcast(w, tx, txid, conf) ==
  LET spent(c) == \E k \in 1..Len(tx.vin) :
                    tx.vin[k].txid = c.txid /\ tx.vin[k].vout = c.vout
      ads == SortedSeq(DOMAIN tx.vout)
      new == [k \in 1..Len(ads) |->
                [txid |-> txid, vout |-> k - 1, scriptPubKey |-> ScriptOf(ads[k]),
                 amount |-> tx.vout[ads[k]], confirmations |-> conf]]
  IN SelectSeq(w, LAMBDA c : ~spent(c)) \o new

InitWallet ==
  /\ args \in WalletArgs
  /\ wallet \in Wallets
  /\ pc = "connect"
  /\ rpclog = <<>>
  /\ address = [isvalid |-> FALSE, ismine |-> FALSE]
  /\ walletEncrypted = NoneVal
  /\ coins = <<>>
  /\ scripts = <<>>
  /\ most_overused = ""
  /\ txouts = <<>>
  /\ amt = 0
  /\ out = <<>>
  /\ na = 0
  /\ addr = Unbound
  /\ txn = NoTxn
  /\ signed_txn = [hex |-> [tx |-> NoTxn, signed |-> FALSE]]
  /\ a = ""
  /\ transactions = <<>>
  /\ summary = <<>>
  /\ exc = ""
  /\ chunks = <<>>
  /\ newaddrs = 0
  /\ iter = 0
  /\ broadcasts = <<>>

Answered == rpclog'[Len(rpclog')].ok

ConnectW == GetBlockchainInfo /\ Answered

ValidateW == ValidateAddress /\ Answered /\ address'.isvalid /\ address'.ismine

WalletInfoW == GetWalletInfo /\ Answered /\ walletEncrypted' # 0

ListUnspentW == ListUnspentFrom({Listing(wallet)}) /\ Answered

SplitW == SplitStep /\ (rpclog' = rpclog \/ Answered)

CreateW == CreateRawTransaction /\ Answered

SignW == SignRawTransaction /\ Answered

SendW ==
  /\ SendFrom(NextTxId)
  /\ Answered
  /\ \E conf \in NewConfs :
       wallet' = Broadcast(wallet, signed_txn.hex.tx, NextTxId, conf)

NextWallet ==
  \/ ConnectW
  \/ ValidateW
  \/ WalletInfoW
  \/ ListUnspentW
  \/ SplitW
  \/ CreateW
  \/ SignW
  \/ SendW

SpecWallet == InitWallet /\ [][NextWallet]_vars

----------------------------------------------------------------------------
(* Properties *)

LastCall == rpclog[Len(rpclog)]

Called(op) == \E i \in DOMAIN rpclog : rpclog[i].op = op

Succeeded(op) == \E i \in DOMAIN rpclog : rpclog[i].op = op /\ rpclog[i].ok

Failed(op) == \E i \in DOMAIN rpclog : rpclog[i].op = op /\ ~rpclog[i].ok

LoopOps ==
  {"listunspent", "getnewaddress", "createrawtransaction",
   "signrawtransaction", "sendrawtransaction"}

\* The script is between the end of the split loop and the broadcast.
Building == pc \in {"create", "signprompt", "sign", "sendprompt", "send"}

\* The snapshot outputs the inputs of the transaction refer to.
SelectedCoins == [k \in 1..Len(txouts) |-> coins[txouts[k].txid]]

SelectedAmount == SumSeq([k \in 1..Len(txouts) |-> SelectedCoins[k].amount])

\* Outputs of the snapshot paying to script s, and their total amount.
OutputsTo(cs, s) == {i \in 1..Len(cs) : cs[i].scriptPubKey = s}

RECURSIVE TotalFrom(_, _, _)
TotalFrom(cs, s, i) ==
  IF i > Len(cs) THEN 0
  ELSE (IF cs[i].scriptPubKey = s THEN cs[i].amount ELSE 0) + TotalFrom(cs, s, i + 1)

\* C1: whenever an iteration reaches createrawtransaction, the payout
\* amounts plus the fee equal the sum of the selected input amounts.
C1_PayoutsPlusFeeEqualInputs ==
  pc = "create" => SumFun(out) + args.fee = SelectedAmount

\* C2: in attended mode an answer of n or N to the sign prompt or to the
\* send prompt ends the run at once: no RPC call is issued by that step, the
\* transactions list is unchanged and nothing happens after the exit; in
\* auto mode no prompt is reached.
C2_DeclineEndsRun ==
  /\ [][(pc \in {"signprompt", "sendprompt"} /\ a' \in {"n", "N"})
          => (pc' = "done" /\ rpclog' = rpclog /\ transactions' = transactions
              /\ iter' = iter)]_vars
  /\ [][pc # "done"]_vars
  /\ [](args.auto => pc \notin {"signprompt", "sendprompt"})

C2_Witness ==
  /\ pc = "done"
  /\ a = "N"
  /\ ~args.auto
  /\ Len(rpclog) > 0 /\ LastCall.op = "signrawtransaction" /\ LastCall.ok
  /\ Len(transactions) = 1

PreflightFailed ==
  \/ Failed("getblockchaininfo")
  \/ Succeeded("validateaddress") /\ ~(address.isvalid /\ address.ismine)
  \/ Succeeded("getwalletinfo") /\ walletEncrypted = 0

\* C3: after a failed pre-flight check (getblockchaininfo error, address
\* invalid or not owned, wallet locked) the script has exited and no call of
\* the consolidation loop has been issued; with an unencrypted or unlocked
\* wallet the loop is entered.
C3_Preflight ==
  /\ PreflightFailed =>
       pc = "done" /\ \A i \in DOMAIN rpclog : rpclog[i].op \notin LoopOps
  /\ (Succeeded("getwalletinfo") /\ walletEncrypted # 0) =>
       pc = "loop" \/ Called("listunspent")

C3_Witness ==
  /\ pc = "done"
  /\ Succeeded("validateaddress")
  /\ address.isvalid /\ ~address.ismine

C3_WitnessLoopEntered ==
  /\ Succeeded("getwalletinfo")
  /\ walletEncrypted = NoneVal
  /\ Called("listunspent")

\* C4: an RPC call that returned an error is the last call of the run, and
\* the script has ended.
C4_ErrorEndsRun ==
  \A i \in DOMAIN rpclog :
    ~rpclog[i].ok => i = Len(rpclog) /\ pc \in {"done", "crashed"}

C4_Witness ==
  /\ pc = "done"
  /\ Len(rpclog) > 0 /\ LastCall.op = "sendrawtransaction" /\ ~LastCall.ok
  /\ Len(transactions) = 1

\* C5: when listunspent fails after transactions were broadcast in this
\* run, the list of their identifiers is printed before the exit.
C5_RunLogReportedOnListError ==
  (pc = "done" /\ Len(rpclog) > 0 /\ LastCall.op = "listunspent"
     /\ ~LastCall.ok /\ Len(transactions) > 0)
    => (Len(summary) = 3 /\ summary[2] = transactions)

\* C6: with --reuse and no --address, an iteration with a positive payable
\* amount is ended only by an RPC error before it reaches
\* createrawtransaction, and reaches it having requested exactly one fresh
\* address, to which every chunk was paid.
C6_ReuseRequestsOneAddress ==
  (args.address = NoneVal /\ args.reuse) =>
    /\ pc = "crashed" => (Len(rpclog) > 0 /\ ~LastCall.ok)
    /\ (pc = "create" /\ amt - args.fee > 0) =>
         (newaddrs = 1 /\ DOMAIN out = {addr})

\* C7: with an explicit destination address and a positive payable amount
\* the payout mapping has that address as its only key, with the whole
\* payable amount, and no getnewaddress call is made.
C7_ExplicitAddressGetsAll ==
  (args.address # NoneVal /\ Building /\ amt - args.fee > 0) =>
    /\ DOMAIN out = {args.address}
    /\ out[args.address] = SelectedAmount - args.fee
    /\ newaddrs = 0
    /\ ~Called("getnewaddress")

C7_Witness ==
  /\ args.address # NoneVal
  /\ pc = "create"
  /\ Len(chunks) >= 2

\* C8: every output selected as an input has an amount strictly below
\* max_amt_input.
C8_InputsBelowMaxAmtInput ==
  Building =>
    \A k \in 1..Len(txouts) : SelectedCoins[k].amount < args.max_amt_input

\* C9: every transaction the loop builds has strictly fewer payout outputs
\* than inputs.
C9_FewerOutputsThanInputs ==
  pc = "create" => Cardinality(DOMAIN out) < Len(txouts)

\* C10: right after a listunspent that returned a snapshot with no script
\* groups, or whose most-overused script has fewer than 3 outputs or a total
\* amount below 0.01, or that holds only 2 outputs, the script has exited
\* (so no address was requested and nothing was built, signed or sent).
C10_StopConditions ==
  (Len(rpclog) > 0 /\ LastCall.op = "listunspent" /\ LastCall.ok) =>
    LET mo == MostOverused(coins, scripts)
        stop == \/ Len(coins) = 0
                \/ Cardinality(OutputsTo(coins, mo)) < 3
                \/ TotalFrom(coins, mo, 1) < MinAmt
    IN /\ stop => pc = "done"
       /\ Len(coins) = 2 => pc = "done"

C10_Witness ==
  /\ Len(rpclog) > 0 /\ LastCall.op = "listunspent" /\ LastCall.ok
  /\ Len(coins) = 2
  /\ \A i \in 1..2 : Qualifies(coins[i]) /\ coins[i].scriptPubKey = "S1"
  /\ pc = "done"
  /\ Len(transactions) = 1

\* listunspent has just returned a snapshot.
Listed == Len(rpclog) > 0 /\ LastCall.op = "listunspent" /\ LastCall.ok

ScriptsOf(cs) == {cs[i].scriptPubKey : i \in 1..Len(cs)}

\* Number of qualifying outputs of the snapshot paying to script s.
QCount(cs, s) == Cardinality({i \in OutputsTo(cs, s) : Qualifies(cs[i])})

\* C12 as claimed: the most-overused script has the greatest qualifying
\* count and, among the scripts sharing that count, is the one seen first
\* in the snapshot.
C12_FirstSeenWinsTies ==
  (Listed /\ Len(coins) > 0) =>
    \A t \in ScriptsOf(coins) :
      /\ QCount(coins, t) <= QCount(coins, most_overused)
      /\ QCount(coins, t) = QCount(coins, most_overused) =>
           FirstSeen(coins, most_overused) <= FirstSeen(coins, t)

\* C12 as amended: the most-overused script has the greatest qualifying
\* count; among the scripts sharing that count it has the greatest total
\* amount, among those the greatest output-count field, and only among
\* scripts equal in all three it is the one seen first in the snapshot.
C12_TupleOrderBreaksTies ==
  (Listed /\ Len(coins) > 0) =>
    \A t \in ScriptsOf(coins) :
      LET qm == QCount(coins, most_overused)
          qt == QCount(coins, t)
          am == TotalFrom(coins, most_overused, 1)
          at == TotalFrom(coins, t, 1)
          cm == scripts[most_overused][3]
          ct == scripts[t][3]
      IN /\ qt <= qm
         /\ qt = qm => at <= am
         /\ (qt = qm /\ at = am) => ct <= cm
         /\ (qt = qm /\ at = am /\ ct = cm) =>
              FirstSeen(coins, most_overused) <= FirstSeen(coins, t)

\* A tie on the qualifying count that the later-seen script won.
C12_Witness ==
  /\ Listed /\ Len(coins) > 0
  /\ \E t \in ScriptsOf(coins) :
       /\ t # most_overused
       /\ QCount(coins, t) = QCount(coins, most_overused)
       /\ QCount(coins, t) > 0
       /\ FirstSeen(coins, t) < FirstSeen(coins, most_overused)

\* C13: after grouping, the output-count field of every script's group is
\* the number of outputs of the snapshot that pay to that script.
C13_CountFieldIsOutputCount ==
  Listed =>
    \A s \in ScriptsOf(coins) :
      scripts[s][3] = Cardinality(OutputsTo(coins, s))

\* The outputs the input selection may take: those paying to the
\* most-overused script or to a script whose outputs total less than 0.0001.
Eligible ==
  {i \in 1..Len(coins) :
     \/ coins[i].scriptPubKey = most_overused
     \/ TotalFrom(coins, coins[i].scriptPubKey, 1) < DustLimit}

Payable == SelectedAmount - args.fee

CeilDiv(x, y) == (x + y - 1) \div y

\* C15: when the split loop ends, the chunks it took sum to N.
C15_ChunksSumToN ==
  (pc = "create" /\ Payable > 0) => SumSeq(chunks) = Payable

C15_Witness ==
  /\ pc = "create"
  /\ Len(chunks) >= 3
  /\ args.max_amt_per_output = 3 * TLS

\* C16: every chunk but the last is at most max_amt_per_output.
C16_OnlyLastChunkExceedsCap ==
  /\ pc = "split" =>
       \A k \in 1..Len(chunks) : chunks[k] <= args.max_amt_per_output
  /\ pc = "create" =>
       \A k \in 1..(Len(chunks) - 1) : chunks[k] <= args.max_amt_per_output

C16_Witness ==
  /\ pc = "create"
  /\ Len(chunks) >= 2
  /\ chunks[Len(chunks)] > args.max_amt_per_output

\* C17: the split loop ends, every chunk it takes is positive, and it makes
\* at most ceil(N / max_amt_per_output) + 1 passes.
C17_SplitTerminates ==
  /\ <>(pc # "split")
  /\ [][pc = "split" => (Len(chunks') = Len(chunks) + 1
                         /\ chunks'[Len(chunks')] > 0 /\ na' < na)]_vars
  /\ [](Len(chunks) <= CeilDiv(Payable, args.max_amt_per_output) + 1)

C17_Witness ==
  /\ pc = "create"
  /\ Len(chunks) >= 3
  /\ Len(chunks) = CeilDiv(Payable, args.max_amt_per_output)

\* The remainder rule: a pass that would leave less than 10 takes all that
\* remains and ends the loop.
AbsorbsRemainder ==
  [][(pc = "split" /\ na - Min(args.max_amt_per_output, na) < AbsorbLimit)
       => (chunks' = Append(chunks, na) /\ na' = 0 /\ pc' = "create")]_vars

Scenario25 ==
  (pc = "create" /\ Payable = 25 * TLS /\ args.max_amt_per_output = 10 * TLS)
    => chunks = <<10 * TLS, 15 * TLS>>

MayFollow(x, y) ==
  /\ x.ok
  /\ y.op = "listunspent" => x.op \in {"getwalletinfo", "sendrawtransaction"}
  /\ y.op = "getnewaddress" => x.op \in {"listunspent", "getnewaddress"}
  /\ y.op = "createrawtransaction" => x.op \in {"listunspent", "getnewaddress"}
  /\ y.op = "signrawtransaction" => x.op = "createrawtransaction"
  /\ y.op = "sendrawtransaction" => x.op = "signrawtransaction"

\* C19: the calls of an iteration come in the order listunspent, address
\* requests, createrawtransaction, signrawtransaction, sendrawtransaction,
\* each after the success of the one before, with one listunspent and at
\* most one sendrawtransaction per iteration; what sendrawtransaction sends
\* is the signed form of the transaction created in this iteration from the
\* inputs selected in this iteration's snapshot.
C19_CallOrder ==
  /\ \A i \in 1..(Len(rpclog) - 1) :
       rpclog[i + 1].op \in LoopOps => MayFollow(rpclog[i], rpclog[i + 1])
  /\ Cardinality({i \in DOMAIN rpclog : rpclog[i].op = "listunspent"}) = iter
  /\ Len(broadcasts) <= iter
  /\ (Len(rpclog) > 0 /\ LastCall.op = "sendrawtransaction") =>
       LET sent == broadcasts[Len(broadcasts)].hex
       IN /\ sent.signed
          /\ sent.tx = txn
          /\ txn = [vin |-> txouts, vout |-> out]
          /\ \A k \in 1..Len(txouts) :
               \E i \in 1..Len(coins) :
                 coins[i].txid = txouts[k].txid /\ coins[i].vout = txouts[k].vout

C19_Witness ==
  /\ Len(rpclog) > 0 /\ LastCall.op = "sendrawtransaction" /\ LastCall.ok
  /\ iter = 2
  /\ newaddrs >= 2

\* The identifiers returned by the successful sendrawtransaction calls.
ReturnedIds ==
  LET okb == SelectSeq(broadcasts, LAMBDA b : b.ok)
  IN [i \in 1..Len(okb) |-> okb[i].txid]

\* C20: the transactions list is at every point the sequence of identifiers
\* the successful sendrawtransaction calls returned; it changes only by the
\* append of a successful broadcast, after which the script is back at
\* listunspent.
C20_RunLogIsReturnedIds ==
  /\ [](Len(transactions) = Len(ReturnedIds)
        /\ \A i \in 1..Len(transactions) : transactions[i] = ReturnedIds[i])
  /\ [][transactions' # transactions =>
          (/\ pc = "send" /\ pc' = "loop"
           /\ LastCall'.op = "sendrawtransaction" /\ LastCall'.ok
           /\ Len(transactions') = Len(transactions) + 1
           /\ \A i \in 1..Len(transactions) : transactions'[i] = transactions[i])]_vars
  /\ []((Len(rpclog) > 0 /\ LastCall.op = "sendrawtransaction" /\ LastCall.ok)
          => pc = "loop")

C20_Witness ==
  /\ Len(transactions) = 2
  /\ pc = "loop"

\* C11: in unattended mode with a positive fee and no RPC error, against a
\* wallet that only the broadcasts change, the loop reaches one of its stop
\* conditions: a run never ends anywhere else, so a run that has ended has
\* ended in the summary of a stop condition.
C11_LoopReachesStop ==
  (pc \in {"done", "crashed"}) => (pc = "done" /\ Len(summary) > 0)

WalletValue(w) == SumSeq([i \in 1..Len(w) |-> w[i].amount])

\* Without --reuse every broadcast lowers the value held by the wallet, and
\* the run ends only in a stop condition.
WalletRunStopsWithoutReuse ==
  [][(~args.reuse) =>
       /\ (wallet' # wallet => WalletValue(wallet') < WalletValue(wallet))
       /\ (pc' \in {"done", "crashed"} => (pc' = "done" /\ Len(summary') > 0))
    ]_vars

====
